---------------------------- MODULE Spec2Model ----------------------------
(***************************************************************************)
(* A model of the feed forward network of network.js (src/unnamed/part_000)*)
(* as driven by example.js: Network, Network.node, feedInputs, outputs,    *)
(* totalError and trainingStep.                                            *)
(*                                                                         *)
(* Numbers.  The program computes on JavaScript doubles.  The networks,    *)
(* input vectors, update multipliers and injected functions of this model  *)
(* are integer valued, and on integers of this size double arithmetic is   *)
(* exact, so every value below is the value the program computes.  Two     *)
(* non-numbers of JavaScript are kept: undefined (an array read past its   *)
(* end) and NaN (arithmetic on undefined or NaN).                          *)
(*                                                                         *)
(* Layers and array positions are numbered from 1 here and from 0 in the   *)
(* source: network[0] of the source is network[1] of the model.            *)
(***************************************************************************)
EXTENDS Integers, Sequences, FiniteSets, TLC

VARIABLES
    constructed,  \* TRUE once new Network(definition) has run
    network,      \* this.definition.network: the layers, each a sequence of nodes
    updateMultiplier, \* this.definition.updateMultiplier
    pc,           \* position inside trainingStep, "idle" between calls
    hidx,         \* trainingStep: position in the order of hidden layers
    args,         \* the arguments of the call in progress or last made
    op,           \* the call in progress or last made
    thrown,       \* the exception the last call ended with, "none" if it returned
    ret,          \* the value the last call returned
    pre,          \* this.definition.network as it was when the last
                  \* feedInputs or trainingStep call started
    calls         \* number of feedInputs and trainingStep calls made

vars == <<constructed, network, updateMultiplier, pc, hidx, args, op, thrown,
          ret, pre, calls>>

---------------------------------------------------------------------------
(* Bounds *)

\* feedInputs and trainingStep calls made on one network
MaxCalls == 2

---------------------------------------------------------------------------
(* JavaScript values *)

\* the value of an arithmetic expression with a non-number operand
NaN == 2147483647
\* the value of an array read past the end of the array
undefined == 2147483646

IsNum(x) == x # NaN /\ x # undefined

\* array[i] of the source, for the 1-based position i
At(array, i) == IF i \in 1..Len(array) THEN array[i] ELSE undefined

Add(a, b) == IF IsNum(a) /\ IsNum(b) THEN a + b ELSE NaN
Sub(a, b) == IF IsNum(a) /\ IsNum(b) THEN a - b ELSE NaN
Mul(a, b) == IF IsNum(a) /\ IsNum(b) THEN a * b ELSE NaN
Neg(a) == IF IsNum(a) THEN 0 - a ELSE NaN

Min(a, b) == IF a <= b THEN a ELSE b
Max(a, b) == IF a >= b THEN a ELSE b

---------------------------------------------------------------------------
(* The injected functions.  The network reads them from its definition and *)
(* never looks inside them; example.js injects the logistic function and   *)
(* half the squared difference.  The model injects integer valued          *)
(* functions of the same kind: a squashing activation whose derivative     *)
(* depends on the input, and the squared difference.                       *)

\* the largest output of the activation function
Saturation == 3

activationFunction(val) ==
    IF ~IsNum(val) THEN NaN
    ELSE IF val >= 0 THEN Min(2 * val, Saturation) ELSE Max(val, 0 - Saturation)

activationFunctionDerivative(val) ==
    IF ~IsNum(val) THEN NaN
    ELSE IF val >= 0 THEN 2 ELSE 1

errorFunction(output, expected) ==
    LET d == Sub(expected, output) IN Mul(d, d)

errorFunctionDerivative(output, expected) == Sub(output, expected)

---------------------------------------------------------------------------
(* Network.node *)

\* Node with no slot for the proposed weight updates
NodeWithoutUpdates(weights, bias) ==
    [weights |-> weights,
     bias |-> bias,
     cached |-> [input |-> 0,
                 output |-> 0,
                 weightUpdates |-> <<>>,
                 biasUpdate |-> 0,
                 errorWrtIn |-> 0]]

Node(weights, bias) ==
    [weights |-> weights,
     bias |-> bias,
     cached |-> [input |-> 0,
                 output |-> 0,
                 weightUpdates |-> [i \in 1..Len(weights) |-> 0],
                 biasUpdate |-> 0,
                 errorWrtIn |-> 0]]

---------------------------------------------------------------------------
(* The definitions the driver may pass to new Network(...).  A topology    *)
(* gives the node count of each layer and the weight count of the nodes of *)
(* each layer.                                                             *)

WeightOf(seed, l, n, i) == ((seed + l + 2 * n + 3 * i) % 4) - 1
BiasOf(seed, l, n) == ((seed + 2 * l + n) % 3) - 1

FanIn(sizes) == [l \in 1..Len(sizes) |-> IF l = 1 THEN 0 ELSE sizes[l - 1]]

ValidTopologies ==
    { [sizes |-> s, fanin |-> FanIn(s)] :
        s \in { <<1, 1>>, <<2, 2, 2>>, <<2, 2, 2, 1>> } }

InvalidTopologies ==
    { [sizes |-> <<>>, fanin |-> <<>>],             \* no layer
      [sizes |-> <<2>>, fanin |-> <<0>>],           \* an input layer only
      [sizes |-> <<1, 1>>, fanin |-> <<0, 2>>],     \* more weights than inputs
      [sizes |-> <<2, 1>>, fanin |-> <<0, 1>>],     \* fewer weights than inputs
      [sizes |-> <<1, 2, 1>>, fanin |-> <<0, 1, 1>>] }

Seeds == {0, 1}
Multipliers == {1, 2}

Build(t, seed) ==
    [l \in 1..Len(t.sizes) |->
        [n \in 1..t.sizes[l] |->
            Node([i \in 1..t.fanin[l] |-> WeightOf(seed, l, n, i)],
                 IF l = 1 THEN 0 ELSE BiasOf(seed, l, n))]]

\* the argument vectors of feedInputs, totalError and trainingStep
Vectors == { <<1>>, <<-1, 2>>, <<2, 1>> }

NoArgs == [inputs |-> <<>>, expected |-> <<>>]

---------------------------------------------------------------------------
(* Shape of a network *)

\* every non-input node has one weight per node of the previous layer,
\* and there are at least an input and an output layer
ValidTopology(net) ==
    /\ Len(net) >= 2
    /\ \A n \in 1..Len(net[1]) : Len(net[1][n].weights) = 0
    /\ \A l \in 2..Len(net) : \A n \in 1..Len(net[l]) :
          Len(net[l][n].weights) = Len(net[l - 1])

---------------------------------------------------------------------------
(* feedInputs *)

\* a call's outcome: the network it leaves and the exception it threw
Outcome(net, exc) == [net |-> net, thrown |-> exc]

\* lines 131-133
SetInputs(net, inputs) ==
    [net EXCEPT ![1] =
        [n \in 1..Len(net[1]) |->
            [net[1][n] EXCEPT !.cached.output = At(inputs, n)]]]

\* the reduce of line 145, over weights[1..k]
RECURSIVE WeightedSum(_, _, _)
WeightedSum(weights, lastLayer, k) ==
    IF k = 0 THEN 0
    ELSE Add(WeightedSum(weights, lastLayer, k - 1),
             Mul(lastLayer[k].cached.output, weights[k]))

\* ForwardNode with the weighted sum added to the input the node cached
\* before instead of replacing it
ForwardNodeAccumulates(net, l, n) ==
    LET node == net[l][n]
        lastLayer == net[l - 1]
        input == Add(node.cached.input,
                     Add(WeightedSum(node.weights, lastLayer, Len(node.weights)),
                         node.bias))
    IN  [net EXCEPT ![l][n].cached.input = input,
                    ![l][n].cached.output = activationFunction(input)]

\* lines 141-154 for one node
ForwardNode(net, l, n) ==
    LET node == net[l][n]
        lastLayer == net[l - 1]
        input == Add(WeightedSum(node.weights, lastLayer, Len(node.weights)),
                     node.bias)
    IN  [net EXCEPT ![l][n].cached.input = input,
                    ![l][n].cached.output = activationFunction(input)]

\* lastLayer[i] is undefined for some weight i of the node: reading
\* .cached of it throws
ForwardNodeThrows(net, l, n) == Len(net[l][n].weights) > Len(net[l - 1])

\* lines 136-156, from node n of layer l on
RECURSIVE ForwardFrom(_, _, _)
ForwardFrom(net, l, n) ==
    IF l > Len(net) THEN Outcome(net, "none")
    ELSE IF n > Len(net[l]) THEN ForwardFrom(net, l + 1, 1)
    ELSE IF ForwardNodeThrows(net, l, n) THEN Outcome(net, "TypeError")
    ELSE ForwardFrom(ForwardNode(net, l, n), l, n + 1)

feedInputs(net, inputs) ==
    IF Len(net) = 0 THEN Outcome(net, "TypeError")
    ELSE ForwardFrom(SetInputs(net, inputs), 2, 1)

---------------------------------------------------------------------------
(* outputs and totalError *)

outputs(net) ==
    [n \in 1..Len(net[Len(net)]) |-> net[Len(net)][n].cached.output]

\* totalError of the inputs the output nodes cache instead of their outputs
RECURSIVE InputErrorSum(_, _, _)
InputErrorSum(layer, expected, k) ==
    IF k = 0 THEN 0
    ELSE Add(InputErrorSum(layer, expected, k - 1),
             errorFunction(layer[k].cached.input, At(expected, k)))

totalErrorOfInputs(net, expected) ==
    InputErrorSum(net[Len(net)], expected, Len(net[Len(net)]))

RECURSIVE ErrorSum(_, _, _)
ErrorSum(layer, expected, k) ==
    IF k = 0 THEN 0
    ELSE Add(ErrorSum(layer, expected, k - 1),
             errorFunction(layer[k].cached.output, At(expected, k)))

totalError(net, expected) ==
    ErrorSum(net[Len(net)], expected, Len(net[Len(net)]))

---------------------------------------------------------------------------
(* trainingStep: the backward pass *)

\* Propose with the weight updates added to the weights at once, during
\* the backward pass
ProposeInPlace(node, errorWrtIn, previousLayer, multiplier) ==
    LET updates == [i \in 1..Len(node.weights) |->
                       Neg(Mul(Mul(errorWrtIn, previousLayer[i].cached.output),
                               multiplier))]
    IN  [node EXCEPT
            !.weights = [i \in 1..Len(node.weights) |->
                            Add(node.weights[i], updates[i])],
            !.cached.errorWrtIn = errorWrtIn,
            !.cached.weightUpdates = [i \in 1..Len(node.weights) |-> 0],
            !.cached.biasUpdate = Mul(Mul(errorWrtIn, 1), multiplier)]

\* Propose with the bias update given the sign of the weight updates
ProposeNegatedBias(node, errorWrtIn, previousLayer, multiplier) ==
    [node EXCEPT
        !.cached.errorWrtIn = errorWrtIn,
        !.cached.weightUpdates =
            [i \in 1..Len(node.weights) |->
                Neg(Mul(Mul(errorWrtIn, previousLayer[i].cached.output),
                        multiplier))],
        !.cached.biasUpdate = Neg(Mul(Mul(errorWrtIn, 1), multiplier))]

\* lines 245-262 and 318-329: cache errorWrtIn and propose the updates of
\* one node from it
Propose(node, errorWrtIn, previousLayer, multiplier) ==
    [node EXCEPT
        !.cached.errorWrtIn = errorWrtIn,
        !.cached.weightUpdates =
            [i \in 1..Len(node.weights) |->
                Neg(Mul(Mul(errorWrtIn, previousLayer[i].cached.output),
                        multiplier))],
        !.cached.biasUpdate = Mul(Mul(errorWrtIn, 1), multiplier)]

\* previousLayer[i] is undefined for some weight i of the node: the map of
\* lines 248 and 321 throws, after errorWrtIn was cached
ProposeThrows(net, l, n) ==
    Len(net[l][n].weights) > (IF l = 1 THEN 0 ELSE Len(net[l - 1]))

\* the previous layer of layer l; network[-1] is undefined and never read
\* when no node of network[0] has weights
PreviousLayer(net, l) == IF l = 1 THEN <<>> ELSE net[l - 1]

\* lines 234-242
OutputErrorWrtIn(node, n, expected) ==
    LET errorWrtOut == errorFunctionDerivative(node.cached.output,
                                               At(expected, n))
        outWrtIn == activationFunctionDerivative(node.cached.input)
    IN  Mul(errorWrtOut, outWrtIn)

\* the reduce of lines 295-307, over nextLayer[1..k], for the node at
\* position n of its layer
RECURSIVE FanInSum(_, _, _)
FanInSum(nextLayer, n, k) ==
    IF k = 0 THEN 0
    ELSE Add(FanInSum(nextLayer, n, k - 1),
             Mul(nextLayer[k].cached.errorWrtIn, At(nextLayer[k].weights, n)))

\* lines 295-315
HiddenErrorWrtIn(net, l, n) ==
    LET errorWrtOut == FanInSum(net[l + 1], n, Len(net[l + 1]))
        outWrtIn == activationFunctionDerivative(net[l][n].cached.input)
    IN  Mul(errorWrtOut, outWrtIn)

\* the errorWrtIn of node n of layer l, the last layer being the output layer
ErrorWrtIn(net, l, n, expected) ==
    IF l = Len(net) THEN OutputErrorWrtIn(net[l][n], n, expected)
    ELSE HiddenErrorWrtIn(net, l, n)

\* the forEach of lines 200-264 (output layer) and 273-331 (a hidden
\* layer), from node n on
RECURSIVE BackwardFrom(_, _, _, _, _)
BackwardFrom(net, l, n, expected, multiplier) ==
    IF n > Len(net[l]) THEN Outcome(net, "none")
    ELSE LET e == ErrorWrtIn(net, l, n, expected) IN
         IF ProposeThrows(net, l, n)
         THEN Outcome([net EXCEPT ![l][n].cached.errorWrtIn = e], "TypeError")
         ELSE BackwardFrom(
                 [net EXCEPT ![l][n] =
                     Propose(net[l][n], e, PreviousLayer(net, l), multiplier)],
                 l, n + 1, expected, multiplier)

\* HiddenOrder from the layer after the input layer up to the layer before
\* the output layer
HiddenOrderAscending(length) ==
    [k \in 1..(IF length > 2 THEN length - 2 ELSE 0) |-> k + 1]

\* line 269: the hidden layers in the order the loop visits them, from the
\* layer before the output layer down to the layer after the input layer
HiddenOrder(length) ==
    [k \in 1..(IF length > 2 THEN length - 2 ELSE 0) |-> length - k]

\* ApplyNode with the bias update applied as well
ApplyNodeWithBias(node) ==
    [node EXCEPT
        !.weights = [i \in 1..Len(node.weights) |->
                        Add(node.weights[i], At(node.cached.weightUpdates, i))],
        !.bias = Add(node.bias, node.cached.biasUpdate)]

\* line 339
ApplyNode(node) ==
    [node EXCEPT !.weights =
        [i \in 1..Len(node.weights) |->
            Add(node.weights[i], At(node.cached.weightUpdates, i))]]

\* ApplyUpdates followed by a forward pass with the inputs of the call
ApplyUpdatesAndFeed(net) ==
    feedInputs([l \in 1..Len(net) |->
                   [n \in 1..Len(net[l]) |-> ApplyNode(net[l][n])]],
               args.inputs).net

\* lines 337-341
ApplyUpdates(net) ==
    [l \in 1..Len(net) |-> [n \in 1..Len(net[l]) |-> ApplyNode(net[l][n])]]

---------------------------------------------------------------------------
(* The state machine *)

Init ==
    /\ constructed = FALSE
    /\ network = <<>>
    /\ updateMultiplier = 0
    /\ pc = "idle"
    /\ hidx = 0
    /\ args = NoArgs
    /\ op = "none"
    /\ thrown = "none"
    /\ ret = <<>>
    /\ pre = <<>>
    /\ calls = 0

\* new Network({network: ..., updateMultiplier: ...}), lines 95-97
Construct(t, seed, multiplier) ==
    /\ ~constructed
    /\ constructed' = TRUE
    /\ network' = Build(t, seed)
    /\ updateMultiplier' = multiplier
    /\ op' = "new"
    /\ thrown' = "none"
    /\ pre' = Build(t, seed)
    /\ UNCHANGED <<pc, hidx, args, ret, calls>>

Idle == constructed /\ pc = "idle"

\* network.feedInputs(inputs)
FeedInputs(inputs) ==
    /\ Idle
    /\ calls < MaxCalls
    /\ LET r == feedInputs(network, inputs) IN
          /\ network' = r.net
          /\ thrown' = r.thrown
    /\ pre' = network
    /\ op' = "feedInputs"
    /\ args' = [inputs |-> inputs, expected |-> <<>>]
    /\ ret' = <<>>
    /\ calls' = calls + 1
    /\ UNCHANGED <<constructed, updateMultiplier, pc, hidx>>

\* network.outputs(); network[network.length-1] is undefined in a network
\* without layers
Outputs ==
    /\ Idle
    /\ op' = "outputs"
    /\ args' = NoArgs
    /\ IF Len(network) = 0
       THEN thrown' = "TypeError" /\ ret' = <<>>
       ELSE thrown' = "none" /\ ret' = outputs(network)
    /\ UNCHANGED <<constructed, network, updateMultiplier, pc, hidx, pre, calls>>

\* network.totalError(expected)
TotalError(expected) ==
    /\ Idle
    /\ op' = "totalError"
    /\ args' = [inputs |-> <<>>, expected |-> expected]
    /\ IF Len(network) = 0
       THEN thrown' = "TypeError" /\ ret' = <<>>
       ELSE thrown' = "none" /\ ret' = <<totalError(network, expected)>>
    /\ UNCHANGED <<constructed, network, updateMultiplier, pc, hidx, pre, calls>>

\* network.trainingStep(inputs, expected), lines 186-196: the forward pass;
\* the values of totalError and outputs are read and dropped
TrainBegin(inputs, expected) ==
    /\ Idle
    /\ calls < MaxCalls
    /\ LET r == feedInputs(network, inputs) IN
          /\ network' = r.net
          /\ thrown' = r.thrown
          /\ pc' = IF r.thrown = "none" THEN "output" ELSE "idle"
    /\ pre' = network
    /\ op' = "trainingStep"
    /\ args' = [inputs |-> inputs, expected |-> expected]
    /\ ret' = <<>>
    /\ hidx' = 0
    /\ calls' = calls + 1
    /\ UNCHANGED <<constructed, updateMultiplier>>

\* lines 199-264: the proposals of the output layer
TrainOutput ==
    /\ pc = "output"
    /\ LET r == BackwardFrom(network, Len(network), 1, args.expected,
                             updateMultiplier) IN
          /\ network' = r.net
          /\ thrown' = r.thrown
          /\ pc' = IF r.thrown # "none" THEN "idle"
                   ELSE IF Len(HiddenOrder(Len(network))) > 0 THEN "hidden"
                   ELSE "apply"
    /\ hidx' = 1
    /\ UNCHANGED <<constructed, updateMultiplier, args, op, ret, pre, calls>>

\* lines 269-333: one turn of the loop over the hidden layers
TrainHidden ==
    /\ pc = "hidden"
    /\ LET order == HiddenOrder(Len(network))
           r == BackwardFrom(network, order[hidx], 1, args.expected,
                             updateMultiplier) IN
          /\ network' = r.net
          /\ thrown' = r.thrown
          /\ pc' = IF r.thrown # "none" THEN "idle"
                   ELSE IF hidx < Len(order) THEN "hidden"
                   ELSE "apply"
    /\ hidx' = hidx + 1
    /\ UNCHANGED <<constructed, updateMultiplier, args, op, ret, pre, calls>>

\* lines 335-343: the updates are applied and trainingStep returns
TrainApply ==
    /\ pc = "apply"
    /\ network' = ApplyUpdates(network)
    /\ pc' = "idle"
    /\ UNCHANGED <<constructed, updateMultiplier, hidx, args, op, thrown, ret,
                   pre, calls>>

Next ==
    \/ \E t \in ValidTopologies \cup InvalidTopologies, seed \in Seeds,
          multiplier \in Multipliers : Construct(t, seed, multiplier)
    \/ \E inputs \in Vectors : FeedInputs(inputs)
    \/ Outputs
    \/ \E expected \in Vectors : TotalError(expected)
    \/ \E inputs \in Vectors, expected \in Vectors : TrainBegin(inputs, expected)
    \/ TrainOutput
    \/ TrainHidden
    \/ TrainApply

Spec == Init /\ [][Next]_vars

---------------------------------------------------------------------------
(* Reference evaluation.  What a forward and a backward evaluation of a    *)
(* network are, as functions of its weights, its biases, the inputs and    *)
(* the expected outputs alone: no cached field of a node is read.          *)

RECURSIVE RefOutput(_, _, _, _), RefInput(_, _, _, _), RefSum(_, _, _, _, _)
RefOutput(net, inputs, l, n) ==
    IF l = 1 THEN At(inputs, n)
    ELSE activationFunction(RefInput(net, inputs, l, n))

RefInput(net, inputs, l, n) ==
    Add(RefSum(net, inputs, l, n, Len(net[l][n].weights)), net[l][n].bias)

RefSum(net, inputs, l, n, k) ==
    IF k = 0 THEN 0
    ELSE Add(RefSum(net, inputs, l, n, k - 1),
             Mul(net[l][n].weights[k], RefOutput(net, inputs, l - 1, k)))

RefOutputs(net, inputs) ==
    [n \in 1..Len(net[Len(net)]) |-> RefOutput(net, inputs, Len(net), n)]

RECURSIVE RefErrorWrtIn(_, _, _, _, _), RefFanIn(_, _, _, _, _, _)
RefErrorWrtIn(net, inputs, expected, l, n) ==
    IF l = Len(net)
    THEN Mul(errorFunctionDerivative(RefOutput(net, inputs, l, n),
                                     At(expected, n)),
             activationFunctionDerivative(RefInput(net, inputs, l, n)))
    ELSE Mul(RefFanIn(net, inputs, expected, l, n, Len(net[l + 1])),
             activationFunctionDerivative(RefInput(net, inputs, l, n)))

RefFanIn(net, inputs, expected, l, n, k) ==
    IF k = 0 THEN 0
    ELSE Add(RefFanIn(net, inputs, expected, l, n, k - 1),
             Mul(RefErrorWrtIn(net, inputs, expected, l + 1, k),
                 At(net[l + 1][k].weights, n)))

\* the positions of the nodes of the layers ls of a network
Nodes(net, ls) ==
    UNION { { <<l, n>> : n \in 1..Len(net[l]) } : l \in ls \cap (1..Len(net)) }
Layers(net) == 1..Len(net)

\* the last call was `name`, and it has returned
Returned(name) == op = name /\ pc = "idle" /\ thrown = "none"

\* the layers whose proposals the trainingStep call in progress, or just
\* returned, has computed so far
Proposed ==
    IF op # "trainingStep" \/ thrown # "none" THEN {}
    ELSE IF pc = "idle" \/ pc = "apply" THEN 2..Len(network)
    ELSE IF pc = "hidden" THEN (Len(network) - hidx + 1)..Len(network)
    ELSE {}

Weights(net) == [l \in 1..Len(net) |-> [n \in 1..Len(net[l]) |-> net[l][n].weights]]
Biases(net) == [l \in 1..Len(net) |-> [n \in 1..Len(net[l]) |-> net[l][n].bias]]
Sizes(net) == [l \in 1..Len(net) |-> Len(net[l])]

---------------------------------------------------------------------------
(* Properties *)

\* C1: inside one trainingStep call no weight changes before the proposals
\* of every non-input layer are computed: at every point of the backward
\* pass (after the output layer, after each hidden layer, and when the
\* apply phase is about to start) every node's weights are those the
\* network had when the call started.
C1_WeightsFrozenUntilApply ==
    pc \in {"output", "hidden", "apply"} => Weights(network) = Weights(pre)

\* a trainingStep is about to apply non-zero updates to a layer whose
\* weights the fan-in sums of the layer before it have read
C1_Witness ==
    /\ pc = "apply"
    /\ Len(network) >= 3
    /\ \E p \in Nodes(network, 3..Len(network)) :
          \E i \in 1..Len(network[p[1]][p[2]].weights) :
             /\ IsNum(network[p[1]][p[2]].cached.weightUpdates[i])
             /\ network[p[1]][p[2]].cached.weightUpdates[i] # 0
             /\ IsNum(network[p[1] - 1][i].cached.errorWrtIn)
             /\ network[p[1] - 1][i].cached.errorWrtIn # 0

\* C3: after feedInputs(inputs) with inputs of the input layer's length,
\* every input node outputs its input value and every later node holds
\* lastInput = sum of weights times previous outputs plus bias and
\* lastOutput = activation(lastInput), as functions of inputs, weights and
\* biases alone, whatever the nodes cached before; outputs() is then the
\* reference evaluation of the network.
C3_ForwardPassOverwritesCache ==
    (/\ Returned("feedInputs")
     /\ ValidTopology(pre)
     /\ Len(args.inputs) = Len(pre[1]))
    => /\ \A n \in 1..Len(network[1]) :
            network[1][n].cached.output = args.inputs[n]
       /\ \A p \in Nodes(network, 2..Len(network)) :
            LET node == network[p[1]][p[2]] IN
            /\ node.cached.input = RefInput(pre, args.inputs, p[1], p[2])
            /\ node.cached.output = activationFunction(node.cached.input)
       /\ outputs(network) = RefOutputs(pre, args.inputs)
       /\ Weights(network) = Weights(pre)
       /\ Biases(network) = Biases(pre)

\* a second forward pass, with other inputs, has replaced cached values of
\* every layer
C3_Witness ==
    /\ Returned("feedInputs")
    /\ ValidTopology(pre)
    /\ Len(args.inputs) = Len(pre[1])
    /\ calls = 2
    /\ Len(network) >= 3
    /\ \A l \in Layers(network) : \E n \in 1..Len(network[l]) :
          /\ IsNum(pre[l][n].cached.output)
          /\ pre[l][n].cached.output # 0
          /\ network[l][n].cached.output # pre[l][n].cached.output

RECURSIVE CachedErrorFrom(_, _, _)
CachedErrorFrom(net, expected, k) ==
    IF k > Len(net[Len(net)]) THEN 0
    ELSE Add(errorFunction(net[Len(net)][k].cached.output, At(expected, k)),
             CachedErrorFrom(net, expected, k + 1))

\* C5: totalError(expected) returns the sum over the output nodes of
\* error(lastOutput, expected[i]) of the cached outputs, outputs() returns
\* the cached lastOutput of the output nodes in order, and a step of either
\* call changes no field of any node (and so runs no forward pass): what a
\* later call finds is what it would have found without them.
C5_ReadsLeaveNodesAlone ==
    /\ []((op = "totalError" /\ thrown = "none") =>
            ret = <<CachedErrorFrom(network, args.expected, 1)>>)
    /\ []((op = "outputs" /\ thrown = "none") =>
            /\ Len(ret) = Len(network[Len(network)])
            /\ \A n \in 1..Len(ret) :
                  ret[n] = network[Len(network)][n].cached.output)
    /\ [][op' \in {"outputs", "totalError"} =>
            /\ network' = network
            /\ updateMultiplier' = updateMultiplier
            /\ pc' = pc
            /\ pre' = pre]_vars

\* totalError has returned a non-zero error for an expected vector of the
\* output layer's length, after a trainingStep
C5_Witness ==
    /\ op = "totalError"
    /\ thrown = "none"
    /\ calls >= 1
    /\ Len(network) >= 3
    /\ Len(args.expected) = Len(network[Len(network)])
    /\ IsNum(ret[1])
    /\ ret[1] > 0
    /\ Weights(network) # Weights(pre)

\* C7: the hidden layers are handled from the layer before the output
\* layer down to the layer after the input layer; once a hidden layer is
\* handled, its node at position i holds errorWrtIn =
\* activationDerivative(lastInput) * sum over the nodes k of the next layer
\* of nextLayer[k].errorWrtIn * nextLayer[k].weights[i], where the
\* errorWrtIn of the next layer is the one of this call: the value is the
\* reference backward evaluation of the network the call started with.
C7_HiddenErrorFromThisCall ==
    \A p \in Nodes(network, Proposed \ {Len(network)}) :
       LET l == p[1]
           i == p[2]
           node == network[l][i] IN
       /\ node.cached.errorWrtIn =
             Mul(FanInSum([k \in 1..Len(network[l + 1]) |->
                             [network[l + 1][k] EXCEPT
                                 !.weights = pre[l + 1][k].weights]],
                          i, Len(network[l + 1])),
                 activationFunctionDerivative(node.cached.input))
       /\ node.cached.errorWrtIn =
             RefErrorWrtIn(pre, args.inputs, args.expected, l, i)

\* the second trainingStep on a network with two hidden layers has handled
\* both: the errorWrtIn it left in the later hidden layer differs from the
\* one the first call left there, and the earlier hidden layer has a
\* non-zero errorWrtIn
C7_Witness ==
    /\ pc = "apply"
    /\ calls = 2
    /\ Len(network) = 4
    /\ ValidTopology(network)
    /\ \E n \in 1..Len(network[3]) :
          /\ IsNum(network[3][n].cached.errorWrtIn)
          /\ pre[3][n].cached.errorWrtIn # 0
          /\ network[3][n].cached.errorWrtIn # pre[3][n].cached.errorWrtIn
    /\ \E n \in 1..Len(network[2]) :
          /\ IsNum(network[2][n].cached.errorWrtIn)
          /\ network[2][n].cached.errorWrtIn # 0

\* C8: once trainingStep has handled a layer, each node of it holds
\* weightUpdates[j] = -(errorWrtIn * previousLayer[j].lastOutput *
\* updateMultiplier) for every weight j and biasUpdate = +(errorWrtIn *
\* updateMultiplier); for an output node i, errorWrtIn =
\* errorDerivative(lastOutput, expected[i]) * activationDerivative(lastInput)
\* with the lastOutput and lastInput of the forward pass of this call.
C8_ProposalsFromErrorWrtIn ==
    \A p \in Nodes(network, Proposed) :
       LET l == p[1]
           i == p[2]
           node == network[l][i]
           e == node.cached.errorWrtIn IN
       /\ Len(node.cached.weightUpdates) = Len(node.weights)
       /\ \A j \in 1..Len(node.weights) :
             node.cached.weightUpdates[j] =
                Neg(Mul(Mul(e, network[l - 1][j].cached.output),
                        updateMultiplier))
       /\ node.cached.biasUpdate = Mul(e, updateMultiplier)
       /\ l = Len(network) =>
             /\ e = Mul(errorFunctionDerivative(node.cached.output,
                                                At(args.expected, i)),
                        activationFunctionDerivative(node.cached.input))
             /\ node.cached.input = RefInput(pre, args.inputs, l, i)
             /\ node.cached.output = RefOutput(pre, args.inputs, l, i)

\* a trainingStep has returned with an output node whose errorWrtIn is
\* positive: a positive bias update and a negative weight update, and a
\* hidden node with non-zero proposals
C8_Witness ==
    /\ Returned("trainingStep")
    /\ Len(network) >= 3
    /\ updateMultiplier = 2
    /\ \E n \in 1..Len(network[Len(network)]) :
          LET node == network[Len(network)][n] IN
          /\ IsNum(node.cached.errorWrtIn)
          /\ node.cached.errorWrtIn > 0
          /\ node.cached.biasUpdate = 2 * node.cached.errorWrtIn
          /\ \E j \in 1..Len(node.weights) : node.cached.weightUpdates[j] < 0
    /\ \E n \in 1..Len(network[2]) :
          LET node == network[2][n] IN
          /\ IsNum(node.cached.biasUpdate)
          /\ node.cached.biasUpdate # 0
          /\ \E j \in 1..Len(node.weights) :
                /\ IsNum(node.cached.weightUpdates[j])
                /\ node.cached.weightUpdates[j] # 0

\* the shape the nodes of a network must have: a valid topology, input
\* nodes without weights or proposed weight updates, and one proposed
\* weight update per weight in every other node
ValidShape(net) ==
    /\ ValidTopology(net)
    /\ \A p \in Nodes(net, Layers(net)) :
          Len(net[p[1]][p[2]].cached.weightUpdates) =
             Len(net[p[1]][p[2]].weights)

ShapeOf(net) ==
    [l \in 1..Len(net) |-> [n \in 1..Len(net[l]) |-> Len(net[l][n].weights)]]

\* C9: a network built with Network.node on a valid topology has the valid
\* shape, and every step of feedInputs, outputs, totalError and
\* trainingStep keeps it: the layers, the nodes per layer and the weights
\* per node stay as many as they were, every non-input node has one weight
\* and one proposed weight update per node of the previous layer, every
\* input node has none.
C9_ShapeKept ==
    /\ []((op = "new" /\ ValidTopology(network)) => ValidShape(network))
    /\ [][(constructed /\ ValidShape(network)) =>
            /\ ValidShape(network')
            /\ ShapeOf(network') = ShapeOf(network)]_vars

\* the second trainingStep on a network of four layers has returned,
\* having changed weights, and the shape is valid
C9_Witness ==
    /\ Returned("trainingStep")
    /\ calls = 2
    /\ Len(network) = 4
    /\ ValidShape(network)
    /\ Weights(network) # Weights(pre)

\* C10: when trainingStep(inputs, expected) returns, outputs() and
\* totalError(expected) are those of the forward pass of inputs under the
\* weights the network had before the call: what feedInputs(inputs) gives
\* on the network as it was.
C10_OutputsPredateUpdate ==
    Returned("trainingStep") =>
       /\ outputs(network) = outputs(feedInputs(pre, args.inputs).net)
       /\ outputs(network) = RefOutputs(pre, args.inputs)
       /\ totalError(network, args.expected) =
             totalError(feedInputs(pre, args.inputs).net, args.expected)

\* a trainingStep has returned on a network whose new weights give other
\* outputs for the same inputs than the ones it caches
C10_Witness ==
    /\ Returned("trainingStep")
    /\ ValidTopology(network)
    /\ Len(args.inputs) = Len(network[1])
    /\ Len(args.expected) = Len(network[Len(network)])
    /\ outputs(network) # RefOutputs(network, args.inputs)

\* C2: feedInputs with an inputs vector that is not of the input layer's
\* length, and trainingStep with an expected vector that is not of the
\* output layer's length, fail with ShapeMismatch and leave every field of
\* every node as it was.
C2_ShapeMismatchRejected ==
    (/\ ValidTopology(pre)
     /\ \/ op = "feedInputs" /\ Len(args.inputs) # Len(pre[1])
        \/ op = "trainingStep" /\ Len(args.expected) # Len(pre[Len(pre)]))
    => /\ thrown = "ShapeMismatch"
       /\ network = pre
       /\ pc = "idle"

\* C6: a topology with fewer than two layers, or with a non-input node
\* whose weight count is not the node count of the previous layer, is
\* rejected by the constructor with InvalidTopology, and no feedInputs or
\* trainingStep call is ever made on such a network.
C6_InvalidTopologyRejected ==
    /\ (op = "new" /\ ~ValidTopology(network)) => thrown = "InvalidTopology"
    /\ op \in {"feedInputs", "trainingStep"} => ValidTopology(pre)

===========================================================================
